---------------------------- MODULE Spec2Model ----------------------------
(***************************************************************************)
(* A model of the diff engine of string-difference-finder                  *)
(* (src/main/resources/static/js/diff.js and the earlier revisions kept in *)
(* src/main/resources/static/js/home.js).                                  *)
(*                                                                         *)
(* A string is a sequence of one-character strings; a token is a non-empty *)
(* string; a token sequence is a sequence of tokens.  JavaScript indices   *)
(* are 0-based: the program counters i, j, k keep the code's 0-based       *)
(* values and the element they name is s[i + 1].                           *)
(***************************************************************************)
EXTENDS Integers, Sequences, FiniteSets, TLC

(***************************************************************************)
(* Bounds of the model.                                                    *)
(***************************************************************************)
MaxLen == 4        \* longest token sequence handed to diff
MaxStrLen == 4     \* longest raw string handed to splitIntoTokens
MaxCandLen == 3    \* longest string handed to candidateLCS
MaxRowLen == 4     \* longest row handed to findPartition
MaxRowVal == 2     \* largest entry of a row handed to findPartition
MaxUILen == 3      \* longest input field of a findDifference that may fail
MaxEscLen == 2     \* longest input field of a findDifference that renders
MaxForkLen == 4    \* longest sequence handed to the asynchronous hirschbergLCS
MaxClicks == 2     \* clicks on the compare button
MaxClickLen == 2   \* longest input field at a click

\* The tokens the token sequences are drawn from.  "ab" is also the
\* concatenation of "a" and "b", so that different token sequences can have
\* the same text.
Tokens == { <<"a">>, <<"b">>, <<"a", "b">> }

\* The characters raw strings are drawn from: two word characters, one
\* whitespace character, two characters that are neither.
Chars == { "a", "b", " ", ",", "." }

\* The value JavaScript yields for an array read past the end.
Undefined == <<"undefined">>

SeqsUpTo(S, n) == UNION { [1..m -> S] : m \in 0..n }

Min(x, y) == IF x < y THEN x ELSE y
Max(x, y) == IF x > y THEN x ELSE y

\* arr[idx] with a 0-based idx, undefined past the end
At(arr, idx) == IF idx >= 0 /\ idx < Len(arr) THEN arr[idx + 1] ELSE Undefined

\* arr.slice(from, to) with 0-based from (inclusive) and to (exclusive); a
\* negative index counts from the end, and both are clamped to 0..length
sliceIndex(arr, idx) ==
    IF idx < 0 THEN Max(Len(arr) + idx, 0) ELSE Min(idx, Len(arr))

slice(arr, from, to) ==
    SubSeq(arr, sliceIndex(arr, from) + 1, sliceIndex(arr, to))

\* arr.includes(x)
includes(arr, x) == \E n \in 1..Len(arr) : arr[n] = x

\* arr.join() with its default separator, a comma
RECURSIVE joinDefault(_)
joinDefault(arr) ==
    IF arr = <<>> THEN <<>>
    ELSE IF Len(arr) = 1 THEN Head(arr)
    ELSE Head(arr) \o <<",">> \o joinDefault(Tail(arr))

\* arr.join('') for an array of strings
RECURSIVE join(_)
join(arr) == IF arr = <<>> THEN <<>> ELSE Head(arr) \o join(Tail(arr))

\* [...arr].reverse()
reverseArray(arr) == [n \in 1..Len(arr) |-> arr[Len(arr) + 1 - n]]

(***************************************************************************)
(* lcsLengths (diff.js): the last row of the LCS length table, computed    *)
(* with two row buffers that are swapped after every row of a.  A row has  *)
(* n + 1 entries; entry j of the code is element j + 1 here.               *)
(***************************************************************************)
RECURSIVE lcsLengthsInner(_, _, _, _, _, _)
lcsLengthsInner(x, y, ii, jj, previous, current) ==
    IF jj > Len(y) THEN current
    ELSE LET v == IF x[ii] = y[jj]
                  THEN previous[jj] + 1
                  ELSE Max(previous[jj + 1], current[jj])
         IN  lcsLengthsInner(x, y, ii, jj + 1, previous,
                             [current EXCEPT ![jj + 1] = v])

\* an outer loop that returns the buffer named current after the last swap
RECURSIVE lcsLengthsOuterWrongRow(_, _, _, _, _)
lcsLengthsOuterWrongRow(x, y, ii, previous, current) ==
    IF ii > Len(x) THEN current
    ELSE lcsLengthsOuterWrongRow(x, y, ii + 1,
                         lcsLengthsInner(x, y, ii, 1, previous, current),
                         previous)

RECURSIVE lcsLengthsOuter(_, _, _, _, _)
lcsLengthsOuter(x, y, ii, previous, current) ==
    IF ii > Len(x) THEN previous
    ELSE lcsLengthsOuter(x, y, ii + 1,
                         lcsLengthsInner(x, y, ii, 1, previous, current),
                         previous)

lcsLengths(x, y) ==
    LET zeros == [n \in 1..(Len(y) + 1) |-> 0]
    IN  lcsLengthsOuter(x, y, 1, zeros, zeros)

(***************************************************************************)
(* findPartition (diff.js): the first index that maximizes                 *)
(* l1[i] + reverse(l2)[i].                                                 *)
(***************************************************************************)
\* a loop that compares with >= and so keeps the last maximum
RECURSIVE findPartitionLoopLastMax(_, _, _, _, _)
findPartitionLoopLastMax(l1, l2Reversed, idx0, max, index) ==
    IF idx0 >= Len(l1) THEN index
    ELSE IF l1[idx0 + 1] + l2Reversed[idx0 + 1] >= max
         THEN findPartitionLoopLastMax(l1, l2Reversed, idx0 + 1,
                                l1[idx0 + 1] + l2Reversed[idx0 + 1], idx0)
         ELSE findPartitionLoopLastMax(l1, l2Reversed, idx0 + 1, max, index)

RECURSIVE findPartitionLoop(_, _, _, _, _)
findPartitionLoop(l1, l2Reversed, idx0, max, index) ==
    IF idx0 >= Len(l1) THEN index
    ELSE IF l1[idx0 + 1] + l2Reversed[idx0 + 1] > max
         THEN findPartitionLoop(l1, l2Reversed, idx0 + 1,
                                l1[idx0 + 1] + l2Reversed[idx0 + 1], idx0)
         ELSE findPartitionLoop(l1, l2Reversed, idx0 + 1, max, index)

\* a findPartition that forgets to reverse l2
findPartitionNoReverse(l1, l2) == findPartitionLoop(l1, l2, 0, -1, 0)

findPartition(l1, l2) == findPartitionLoop(l1, reverseArray(l2), 0, -1, 0)

(***************************************************************************)
(* hirschbergLCS (diff.js).  The two lcsLengths calls and the two          *)
(* recursive calls are joined with Promise.all; the functions are pure, so *)
(* the value is the one computed here.                                     *)
(***************************************************************************)
RECURSIVE hirschbergLCSNoCheck(_, _)
\* a hirschbergLCS whose single-element base case on b skips the
\* containment test
hirschbergLCSNoCheck(x, y) ==
    IF Len(x) = 0 THEN <<>>
    ELSE IF Len(x) = 1 THEN (IF includes(y, x[1]) THEN <<x[1]>> ELSE <<>>)
    ELSE IF Len(y) = 1 THEN <<y[1]>>
    ELSE LET mid == Len(x) \div 2
             l1 == lcsLengths(slice(x, 0, mid), y)
             l2 == lcsLengths(reverseArray(slice(x, mid, Len(x))),
                              reverseArray(y))
             partition == findPartition(l1, l2)
         IN  hirschbergLCSNoCheck(slice(x, 0, mid), slice(y, 0, partition))
             \o hirschbergLCSNoCheck(slice(x, mid, Len(x)),
                                     slice(y, partition, Len(y)))

RECURSIVE hirschbergLCS(_, _)
hirschbergLCS(x, y) ==
    IF Len(x) = 0 THEN <<>>
    ELSE IF Len(x) = 1 THEN (IF includes(y, x[1]) THEN <<x[1]>> ELSE <<>>)
    ELSE IF Len(y) = 1 THEN (IF includes(x, y[1]) THEN <<y[1]>> ELSE <<>>)
    ELSE LET mid == Len(x) \div 2
             l1 == lcsLengths(slice(x, 0, mid), y)
             l2 == lcsLengths(reverseArray(slice(x, mid, Len(x))),
                              reverseArray(y))
             partition == findPartition(l1, l2)
         IN  hirschbergLCS(slice(x, 0, mid), slice(y, 0, partition))
             \o hirschbergLCS(slice(x, mid, Len(x)),
                              slice(y, partition, Len(y)))

(***************************************************************************)
(* commonPrefix and commonSuffix (diff.js).                                *)
(***************************************************************************)
RECURSIVE commonPrefixLoop(_, _, _)
commonPrefixLoop(x, y, n) ==
    IF n < Min(Len(x), Len(y)) /\ x[n + 1] = y[n + 1]
    THEN commonPrefixLoop(x, y, n + 1)
    ELSE n

commonPrefix(x, y) == commonPrefixLoop(x, y, 0)

RECURSIVE commonSuffixLoop(_, _, _)
commonSuffixLoop(x, y, n) ==
    IF n < Min(Len(x), Len(y)) /\ x[Len(x) - n] = y[Len(y) - n]
    THEN commonSuffixLoop(x, y, n + 1)
    ELSE n

commonSuffix(x, y) == commonSuffixLoop(x, y, 0)

(***************************************************************************)
(* State of one call diff(argA, argB) (diff.js).  a and b are the          *)
(* parameters, which the code reassigns when it trims; argA and argB keep  *)
(* the values the caller passed.                                           *)
(***************************************************************************)
VARIABLES argA, argB, a, b, diffs, prefixLength, suffixLength, suffix,
          lcs, i, j, k

diffVars == <<argA, argB, a, b, diffs, prefixLength, suffixLength, suffix,
              lcs, i, j, k>>

\* State of one call splitIntoTokens(str): the argument and the result.
VARIABLES str, tokens

tokVars == <<str, tokens>>

\* State of one call candidateLCS(candA, candB) (home.js): the arguments, the
\* locals candidates and prev, the loop index ci (the code's i) and the
\* returned list.
VARIABLES candA, candB, candidates, prev, ci, result

candVars == <<candA, candB, candidates, prev, ci, result>>

\* State of one call findPartition(fpL1, fpL2) (diff.js): the two arrays the
\* caller passed, as they are during and after the call, and the returned
\* index (-1 before the return).
VARIABLES fpL1, fpL2, fpIndex

partVars == <<fpL1, fpL2, fpIndex>>

\* The position of the call being modelled.
VARIABLE pc

(***************************************************************************)
(* State of one call findDifference() (diff.js): the two input fields as   *)
(* read at its start, the failure the environment raises during the call   *)
(* (resource exhaustion at one site of the engine, or none), the token     *)
(* sequences, what the awaited promise of diff settled to, the two lines   *)
(* under construction with the index of the next part, and the result      *)
(* area.                                                                   *)
(***************************************************************************)
VARIABLES string1, string2, fault, tokens1, tokens2, outcome, deletedParts,
          insertedParts, rn, resultArea

uiVars == <<string1, string2, fault, tokens1, tokens2, outcome, deletedParts,
            insertedParts, rn, resultArea>>

(***************************************************************************)
(* State of one top-level call hirschbergLCS(forkA, forkB) of diff.js as a *)
(* tree of asynchronous invocations.  An invocation is named by its path   *)
(* from the top-level call ("L" the call on the left half, "R" the call on *)
(* the right half) and an array by the invocation that allocates it and    *)
(* its role there.  calls holds each started invocation with the await it  *)
(* is suspended at; heap the contents of the row arrays of the lcsLengths  *)
(* calls; reads and writes which branch touched which array.               *)
(***************************************************************************)
VARIABLES forkA, forkB, calls, heap, reads, writes

forkVars == <<forkA, forkB, calls, heap, reads, writes>>

(***************************************************************************)
(* State of the page over several clicks on the compare button (diff.js,   *)
(* line 273): the number of clicks dispatched, the invocation of           *)
(* findDifference each of them started, the result area with the           *)
(* invocation that wrote it, and the writers of the result area in order.  *)
(***************************************************************************)
VARIABLES clicks, inv, area, writers

clickVars == <<clicks, inv, area, writers>>

\* All variables, and the groups of them a specification leaves alone
vars == <<diffVars, tokVars, candVars, partVars, uiVars, forkVars, clickVars,
          pc>>

\* The variables of the calls a specification does not make
TokIdle == str = <<>> /\ tokens = <<>>

CandIdle ==
    /\ candA = <<>>
    /\ candB = <<>>
    /\ candidates = <<>>
    /\ prev = <<>>
    /\ ci = 0
    /\ result = <<>>

DiffIdle ==
    /\ argA = <<>>
    /\ argB = <<>>
    /\ a = <<>>
    /\ b = <<>>
    /\ diffs = <<>>
    /\ prefixLength = 0
    /\ suffixLength = 0
    /\ suffix = <<>>
    /\ lcs = <<>>
    /\ i = 0
    /\ j = 0
    /\ k = 0

PartIdle == fpL1 = <<>> /\ fpL2 = <<>> /\ fpIndex = -1

UIIdle ==
    /\ string1 = <<>>
    /\ string2 = <<>>
    /\ fault = "none"
    /\ tokens1 = <<>>
    /\ tokens2 = <<>>
    /\ outcome = [kind |-> "pending"]
    /\ deletedParts = <<>>
    /\ insertedParts = <<>>
    /\ rn = 0
    /\ resultArea = [kind |-> "empty"]

ForkIdle ==
    /\ forkA = <<>>
    /\ forkB = <<>>
    /\ calls = <<>>
    /\ heap = <<>>
    /\ reads = {}
    /\ writes = {}

ClickIdle ==
    /\ clicks = 0
    /\ inv = <<>>
    /\ area = [content |-> [kind |-> "empty"], by |-> 0]
    /\ writers = <<>>

notDiffVars == <<tokVars, candVars, partVars, uiVars, forkVars, clickVars>>

NotDiffIdle == TokIdle /\ CandIdle /\ PartIdle /\ UIIdle /\ ForkIdle /\ ClickIdle

notTokVars == <<diffVars, candVars, partVars, uiVars, forkVars, clickVars>>

NotTokIdle == DiffIdle /\ CandIdle /\ PartIdle /\ UIIdle /\ ForkIdle /\ ClickIdle

notCandVars == <<diffVars, tokVars, partVars, uiVars, forkVars, clickVars>>

NotCandIdle == DiffIdle /\ TokIdle /\ PartIdle /\ UIIdle /\ ForkIdle /\ ClickIdle

notPartVars == <<diffVars, tokVars, candVars, uiVars, forkVars, clickVars>>

NotPartIdle == DiffIdle /\ TokIdle /\ CandIdle /\ UIIdle /\ ForkIdle /\ ClickIdle

notUIVars == <<diffVars, tokVars, candVars, partVars, forkVars, clickVars>>

NotUIIdle == DiffIdle /\ TokIdle /\ CandIdle /\ PartIdle /\ ForkIdle /\ ClickIdle

notForkVars == <<diffVars, tokVars, candVars, partVars, uiVars, clickVars>>

NotForkIdle == DiffIdle /\ TokIdle /\ CandIdle /\ PartIdle /\ UIIdle /\ ClickIdle

notClickVars == <<diffVars, tokVars, candVars, partVars, uiVars, forkVars>>

NotClickIdle == DiffIdle /\ TokIdle /\ CandIdle /\ PartIdle /\ UIIdle /\ ForkIdle


Op(operation, text) == [operation |-> operation, text |-> text]

TokenSeqs == SeqsUpTo(Tokens, MaxLen)

Init ==
    /\ argA \in TokenSeqs
    /\ argB \in TokenSeqs
    /\ a = argA
    /\ b = argB
    /\ diffs = <<>>
    /\ prefixLength = 0
    /\ suffixLength = 0
    /\ suffix = <<>>
    /\ lcs = <<>>
    /\ i = 0
    /\ j = 0
    /\ k = 0
    /\ pc = "start"
    /\ NotDiffIdle

\* a diff that measures the suffix on the untrimmed sequences
DiffStartUntrimmedSuffix ==
    /\ pc = "start"
    /\ LET p  == commonPrefix(a, b)
           a1 == IF p > 0 THEN slice(a, p, Len(a)) ELSE a
           b1 == IF p > 0 THEN slice(b, p, Len(b)) ELSE b
           s  == commonSuffix(a, b)
           a2 == IF s > 0 THEN slice(a1, 0, Len(a1) - s) ELSE a1
           b2 == IF s > 0 THEN slice(b1, 0, Len(b1) - s) ELSE b1
       IN  /\ prefixLength' = p
           /\ diffs' = IF p > 0
                       THEN Append(diffs, Op("equal", join(slice(a, 0, p))))
                       ELSE diffs
           /\ suffixLength' = s
           /\ suffix' = IF s > 0
                        THEN join(slice(a1, Len(a1) - s, Len(a1)))
                        ELSE <<>>
           /\ a' = a2
           /\ b' = b2
           /\ lcs' = hirschbergLCS(a2, b2)
    /\ i' = 0
    /\ j' = 0
    /\ k' = 0
    /\ pc' = "walk"
    /\ UNCHANGED <<notDiffVars, argA, argB>>

\* diff, lines 136-158: trim the common prefix, then the common suffix of
\* what is left, then compute the LCS of the interiors.
DiffStart ==
    /\ pc = "start"
    /\ LET p  == commonPrefix(a, b)
           a1 == IF p > 0 THEN slice(a, p, Len(a)) ELSE a
           b1 == IF p > 0 THEN slice(b, p, Len(b)) ELSE b
           s  == commonSuffix(a1, b1)
           a2 == IF s > 0 THEN slice(a1, 0, Len(a1) - s) ELSE a1
           b2 == IF s > 0 THEN slice(b1, 0, Len(b1) - s) ELSE b1
       IN  /\ prefixLength' = p
           /\ diffs' = IF p > 0
                       THEN Append(diffs, Op("equal", join(slice(a, 0, p))))
                       ELSE diffs
           /\ suffixLength' = s
           /\ suffix' = IF s > 0
                        THEN join(slice(a1, Len(a1) - s, Len(a1)))
                        ELSE <<>>
           /\ a' = a2
           /\ b' = b2
           /\ lcs' = hirschbergLCS(a2, b2)
    /\ i' = 0
    /\ j' = 0
    /\ k' = 0
    /\ pc' = "walk"
    /\ UNCHANGED <<notDiffVars, argA, argB>>

\* an equal branch that forgets k++
WalkEqualKeepsK ==
    /\ pc = "walk"
    /\ i < Len(a) \/ j < Len(b)
    /\ k < Len(lcs) /\ At(a, i) = At(lcs, k) /\ At(b, j) = At(lcs, k)
    /\ diffs' = Append(diffs, Op("equal", At(lcs, k)))
    /\ i' = i + 1
    /\ j' = j + 1
    /\ UNCHANGED <<notDiffVars, argA, argB, a, b, prefixLength, suffixLength,
                   suffix, lcs, k, pc>>

\* diff, lines 161-166: one iteration of the loop that takes the equal branch
WalkEqual ==
    /\ pc = "walk"
    /\ i < Len(a) \/ j < Len(b)
    /\ k < Len(lcs) /\ At(a, i) = At(lcs, k) /\ At(b, j) = At(lcs, k)
    /\ diffs' = Append(diffs, Op("equal", At(lcs, k)))
    /\ i' = i + 1
    /\ j' = j + 1
    /\ k' = k + 1
    /\ UNCHANGED <<notDiffVars, argA, argB, a, b, prefixLength, suffixLength, suffix,
                   lcs, pc>>

\* an else branch whose delete test lacks the bound i < a.length
WalkElseUnboundedDelete ==
    /\ pc = "walk"
    /\ i < Len(a) \/ j < Len(b)
    /\ ~(k < Len(lcs) /\ At(a, i) = At(lcs, k) /\ At(b, j) = At(lcs, k))
    /\ LET del == k >= Len(lcs) \/ At(a, i) # At(lcs, k)
           ins == j < Len(b) /\ (k >= Len(lcs) \/ At(b, j) # At(lcs, k))
           d1  == IF del THEN Append(diffs, Op("delete", At(a, i))) ELSE diffs
           d2  == IF ins THEN Append(d1, Op("insert", At(b, j))) ELSE d1
       IN  /\ diffs' = d2
           /\ i' = IF del THEN i + 1 ELSE i
           /\ j' = IF ins THEN j + 1 ELSE j
    /\ UNCHANGED <<notDiffVars, argA, argB, a, b, prefixLength, suffixLength, suffix,
                   lcs, k, pc>>

\* diff, lines 167-176: one iteration that takes the else branch; the delete
\* and the insert test are independent
WalkElse ==
    /\ pc = "walk"
    /\ i < Len(a) \/ j < Len(b)
    /\ ~(k < Len(lcs) /\ At(a, i) = At(lcs, k) /\ At(b, j) = At(lcs, k))
    /\ LET del == i < Len(a) /\ (k >= Len(lcs) \/ At(a, i) # At(lcs, k))
           ins == j < Len(b) /\ (k >= Len(lcs) \/ At(b, j) # At(lcs, k))
           d1  == IF del THEN Append(diffs, Op("delete", At(a, i))) ELSE diffs
           d2  == IF ins THEN Append(d1, Op("insert", At(b, j))) ELSE d1
       IN  /\ diffs' = d2
           /\ i' = IF del THEN i + 1 ELSE i
           /\ j' = IF ins THEN j + 1 ELSE j
    /\ UNCHANGED <<notDiffVars, argA, argB, a, b, prefixLength, suffixLength, suffix,
                   lcs, k, pc>>

\* a return that forgets the suffix
DiffReturnNoSuffix ==
    /\ pc = "walk"
    /\ ~(i < Len(a) \/ j < Len(b))
    /\ diffs' = diffs
    /\ pc' = "done"
    /\ UNCHANGED <<notDiffVars, argA, argB, a, b, prefixLength, suffixLength, suffix,
                   lcs, i, j, k>>

\* diff, lines 179-184: the loop is over; append the suffix and return
DiffReturn ==
    /\ pc = "walk"
    /\ ~(i < Len(a) \/ j < Len(b))
    /\ diffs' = IF suffixLength > 0
                THEN Append(diffs, Op("equal", suffix))
                ELSE diffs
    /\ pc' = "done"
    /\ UNCHANGED <<notDiffVars, argA, argB, a, b, prefixLength, suffixLength, suffix,
                   lcs, i, j, k>>

Next == DiffStart \/ WalkEqual \/ WalkElse \/ DiffReturn

Spec == Init /\ [][Next]_vars

\* The loop of diff and its return run in one piece, without an await: once
\* the walk has begun, a step that can be taken is taken.
SpecFair == Spec /\ WF_vars(WalkEqual \/ WalkElse \/ DiffReturn)

\* The first arguments of the calls hirschbergLCS(x, y) makes, directly and
\* through its recursive calls (lines 22-37), each paired with the length of
\* the first argument of the call that makes it.  fuel bounds the depth the
\* operator follows the calls to.
RECURSIVE recursiveCalls(_, _, _)
recursiveCalls(x, y, fuel) ==
    IF fuel = 0 \/ Len(x) <= 1 \/ Len(y) = 1 THEN {}
    ELSE LET mid == Len(x) \div 2
             l1 == lcsLengths(slice(x, 0, mid), y)
             l2 == lcsLengths(reverseArray(slice(x, mid, Len(x))),
                              reverseArray(y))
             partition == findPartition(l1, l2)
         IN  { <<Len(x), slice(x, 0, mid)>>, <<Len(x), slice(x, mid, Len(x))>> }
             \cup recursiveCalls(slice(x, 0, mid), slice(y, 0, partition),
                                 fuel - 1)
             \cup recursiveCalls(slice(x, mid, Len(x)),
                                 slice(y, partition, Len(y)), fuel - 1)

(***************************************************************************)
(* hirschbergLCS applied on its own to arbitrary token sequences.          *)
(***************************************************************************)
InitLCS ==
    /\ argA \in TokenSeqs
    /\ argB \in TokenSeqs
    /\ a = argA
    /\ b = argB
    /\ diffs = <<>>
    /\ prefixLength = 0
    /\ suffixLength = 0
    /\ suffix = <<>>
    /\ lcs = <<>>
    /\ i = 0
    /\ j = 0
    /\ k = 0
    /\ pc = "lcs"
    /\ NotDiffIdle

HirschbergCall ==
    /\ pc = "lcs"
    /\ lcs' = hirschbergLCS(a, b)
    /\ pc' = "lcsdone"
    /\ UNCHANGED <<notDiffVars, argA, argB, a, b, diffs, prefixLength, suffixLength,
                   suffix, i, j, k>>

NextLCS == HirschbergCall

SpecLCS == InitLCS /\ [][NextLCS]_vars

(***************************************************************************)
(* findPartition (diff.js, lines 89-101) applied on its own.  fpL1 and     *)
(* fpL2 are the caller's arrays; the function reverses a copy of l2, so    *)
(* the caller's array is after the call what it was before.                *)
(***************************************************************************)
Rows(n) == [1..n -> 0..MaxRowVal]

\* a findPartition that reverses l2 itself (l2.reverse()): the caller's l2
\* after the call
l2AfterReverseInPlace(l2) == reverseArray(l2)

\* line 90, [...l2].reverse(): the caller's l2 after the call
l2AfterFindPartition(l2) == l2

InitPart ==
    /\ \E n \in 1..MaxRowLen : fpL1 \in Rows(n) /\ fpL2 \in Rows(n)
    /\ fpIndex = -1
    /\ pc = "part"
    /\ NotPartIdle

FindPartitionCall ==
    /\ pc = "part"
    /\ fpIndex' = findPartition(fpL1, fpL2)
    /\ fpL1' = fpL1
    /\ fpL2' = l2AfterFindPartition(fpL2)
    /\ pc' = "partdone"
    /\ UNCHANGED notPartVars

NextPart == FindPartitionCall

SpecPart == InitPart /\ [][NextPart]_vars

(***************************************************************************)
(* The untrimmed revision (home.js, lines 54-92): the full-table dynamic   *)
(* program and the walk over the whole sequences.  The revision is written *)
(* for strings, whose elements are characters; here the elements are the   *)
(* elements of the sequences it is given: a cell of dp is the sequence of  *)
(* the elements appended to it and its length is their number.             *)
(***************************************************************************)
RECURSIVE dpCell(_, _, _, _)
dpCell(x, y, ii, jj) ==
    IF ii = 0 \/ jj = 0 THEN <<>>
    ELSE IF x[ii] = y[jj]
         THEN Append(dpCell(x, y, ii - 1, jj - 1), x[ii])
         ELSE LET up   == dpCell(x, y, ii - 1, jj)
                  left == dpCell(x, y, ii, jj - 1)
              IN  IF Len(up) > Len(left) THEN up ELSE left

longestCommonSubsequence(x, y) == dpCell(x, y, Len(x), Len(y))

\* the loop of lines 59-75; the code has no exit when no branch fires, the
\* operator then returns what it has with a "stuck" entry
RECURSIVE walkLoop(_, _, _, _, _, _, _)
walkLoop(x, y, l, wi, wj, wk, acc) ==
    IF ~(wi < Len(x) \/ wj < Len(y)) THEN acc
    ELSE IF wk < Len(l) /\ At(x, wi) = At(l, wk) /\ At(y, wj) = At(l, wk)
    THEN walkLoop(x, y, l, wi + 1, wj + 1, wk + 1,
                  Append(acc, Op("equal", At(l, wk))))
    ELSE LET del == wi < Len(x) /\ (wk >= Len(l) \/ At(x, wi) # At(l, wk))
             ins == wj < Len(y) /\ (wk >= Len(l) \/ At(y, wj) # At(l, wk))
             d1  == IF del THEN Append(acc, Op("delete", At(x, wi))) ELSE acc
             d2  == IF ins THEN Append(d1, Op("insert", At(y, wj))) ELSE d1
         IN  IF ~del /\ ~ins THEN Append(acc, Op("stuck", <<>>))
             ELSE walkLoop(x, y, l, IF del THEN wi + 1 ELSE wi,
                           IF ins THEN wj + 1 ELSE wj, wk, d2)

diffUntrimmed(x, y) ==
    walkLoop(x, y, longestCommonSubsequence(x, y), 0, 0, 0, <<>>)

(***************************************************************************)
(* splitIntoTokens (diff.js, lines 6-8; the same in home.js, 375-377):     *)
(* str.match(/(\w+|\s+|[^\s\w]+)/g) || [].  The global match scans from    *)
(* the left; at each position it tries the three alternatives in order,    *)
(* each of them greedy, and goes on after the end of the match.            *)
(***************************************************************************)
WordChars == { "a", "b" }
SpaceChars == { " " }

isWord(c) == c \in WordChars
isSpace(c) == c \in SpaceChars
isOther(c) == ~isWord(c) /\ ~isSpace(c)

\* the length of the greedy match of \w+ at the 1-based position pos, 0 when
\* there is none
RECURSIVE matchWord(_, _)
matchWord(s, pos) ==
    IF pos <= Len(s) /\ isWord(s[pos]) THEN 1 + matchWord(s, pos + 1) ELSE 0

\* an expression without its second alternative: whitespace matches nothing
matchSpaceNone(s, pos) == 0

\* the same for \s+
RECURSIVE matchSpace(_, _)
matchSpace(s, pos) ==
    IF pos <= Len(s) /\ isSpace(s[pos]) THEN 1 + matchSpace(s, pos + 1) ELSE 0

\* a third alternative without its +, [^\s\w]
matchOtherSingle(s, pos) ==
    IF pos <= Len(s) /\ isOther(s[pos]) THEN 1 ELSE 0

\* the same for [^\s\w]+
RECURSIVE matchOther(_, _)
matchOther(s, pos) ==
    IF pos <= Len(s) /\ isOther(s[pos]) THEN 1 + matchOther(s, pos + 1) ELSE 0

\* the length of the match of (\w+|\s+|[^\s\w]+) at pos
matchAt(s, pos) ==
    IF matchWord(s, pos) > 0 THEN matchWord(s, pos)
    ELSE IF matchSpace(s, pos) > 0 THEN matchSpace(s, pos)
    ELSE matchOther(s, pos)

RECURSIVE matchAll(_, _, _)
matchAll(s, pos, acc) ==
    IF pos > Len(s) THEN acc
    ELSE LET n == matchAt(s, pos)
         IN  IF n = 0 THEN matchAll(s, pos + 1, acc)
             ELSE matchAll(s, pos + n, Append(acc, SubSeq(s, pos, pos + n - 1)))

splitIntoTokens(s) == matchAll(s, 1, <<>>)

InitTok ==
    /\ str \in SeqsUpTo(Chars, MaxStrLen)
    /\ tokens = <<>>
    /\ pc = "tok"
    /\ NotTokIdle

Tokenize ==
    /\ pc = "tok"
    /\ tokens' = splitIntoTokens(str)
    /\ pc' = "tokdone"
    /\ UNCHANGED <<notTokVars, str>>

NextTok == Tokenize

SpecTok == InitTok /\ [][NextTok]_vars

(***************************************************************************)
(* The array revision of Hirschberg's algorithm in home.js (lines          *)
(* 385-454), which runs its steps one after the other.                     *)
(***************************************************************************)
\* lcsLengths, home.js 405-416: the buffers are swapped before a row is
\* filled and curr is returned
RECURSIVE lcsLengthsArrayOuter(_, _, _, _, _)
lcsLengthsArrayOuter(x, y, ii, prv, curr) ==
    IF ii > Len(x) THEN curr
    ELSE lcsLengthsArrayOuter(x, y, ii + 1, curr,
                              lcsLengthsInner(x, y, ii, 1, curr, prv))

lcsLengthsArray(x, y) ==
    LET zeros == [n \in 1..(Len(y) + 1) |-> 0]
    IN  lcsLengthsArrayOuter(x, y, 1, zeros, zeros)

\* findPartition, home.js 431-443: l2.reverse() reverses l2 in place, which
\* the caller does not read again
findPartitionArray(l1, l2) == findPartitionLoop(l1, reverseArray(l2), 0, -1, 0)

\* lcsBaseCase, home.js 451-454
lcsBaseCase(x, y) ==
    LET short == IF Len(x) < Len(y) THEN x ELSE y
        long  == IF Len(x) < Len(y) THEN y ELSE x
    IN  SelectSeq(short, LAMBDA char : includes(long, char))

RECURSIVE hirschbergLCSArray(_, _)
hirschbergLCSArray(x, y) ==
    IF Len(x) = 0 \/ Len(y) = 0 THEN <<>>
    ELSE IF Len(x) = 1 \/ Len(y) = 1 THEN lcsBaseCase(x, y)
    ELSE LET mid == Len(x) \div 2
             l1 == lcsLengthsArray(slice(x, 0, mid), y)
             l2 == lcsLengthsArray(reverseArray(slice(x, mid, Len(x))),
                                   reverseArray(y))
             partition == findPartitionArray(l1, l2)
         IN  hirschbergLCSArray(slice(x, 0, mid), slice(y, 0, partition))
             \o hirschbergLCSArray(slice(x, mid, Len(x)),
                                   slice(y, partition, Len(y)))

(***************************************************************************)
(* candidateLCS and mergeCandidates (home.js, lines 616-689).  A candidate *)
(* is a record [i, j] of 1-based positions; {i: 0, j: 0} is the entry the  *)
(* list starts with.                                                       *)
(***************************************************************************)
CandChars == { "a", "b", "c" }

Cand(ii, jj) == [i |-> ii, j |-> jj]

\* eqClasses[c] (lines 625-631): the positions j + 1 of c in y, ascending;
\* empty stands for a missing key
eqClasses(y, c) ==
    SelectSeq([n \in 1..Len(y) |-> n], LAMBDA n : y[n] = c)

\* lines 640-646: the first position of the class above the bound, as a list
\* of at most one element
RECURSIVE firstAbove(_, _, _)
firstAbove(class, n, bound) ==
    IF n > Len(class) THEN <<>>
    ELSE IF class[n] > bound THEN <<class[n]>>
    ELSE firstAbove(class, n + 1, bound)

\* mergeCandidates, lines 660-689
RECURSIVE mergeLoop(_, _, _, _, _)
mergeLoop(cs, ns, mi, mj, merged) ==
    IF mi < Len(cs) /\ mj < Len(ns)
    THEN IF cs[mi + 1].j < ns[mj + 1].j
         THEN mergeLoop(cs, ns, mi + 1, mj, Append(merged, cs[mi + 1]))
         ELSE IF cs[mi + 1].j > ns[mj + 1].j
         THEN mergeLoop(cs, ns, mi, mj + 1, Append(merged, ns[mj + 1]))
         ELSE mergeLoop(cs, ns, mi + 1, mj + 1, Append(merged, ns[mj + 1]))
    ELSE merged \o SubSeq(cs, mi + 1, Len(cs)) \o SubSeq(ns, mj + 1, Len(ns))

mergeCandidates(cs, ns) == mergeLoop(cs, ns, 0, 0, <<>>)

InitCand ==
    /\ candA \in SeqsUpTo(CandChars, MaxCandLen)
    /\ candB \in SeqsUpTo(CandChars, MaxCandLen)
    /\ candidates = <<>>
    /\ prev = <<>>
    /\ ci = 0
    /\ result = <<>>
    /\ pc = "cand"
    /\ NotCandIdle

\* lines 617-622: an empty argument returns the empty list at once
CandEmpty ==
    /\ pc = "cand"
    /\ Len(candA) = 0 \/ Len(candB) = 0
    /\ result' = <<>>
    /\ pc' = "canddone"
    /\ UNCHANGED <<notCandVars, candA, candB, candidates, prev, ci>>

\* lines 624-637: the classes, the candidate list, prev, and the loop index.
\* prev has n + 1 entries; entry i of the code is element i + 1 here.
CandStart ==
    /\ pc = "cand"
    /\ ~(Len(candA) = 0 \/ Len(candB) = 0)
    /\ candidates' = <<Cand(0, 0)>>
    /\ prev' = [n \in 1..(Len(candA) + 1) |-> 0]
    /\ ci' = 1
    /\ pc' = "candloop"
    /\ UNCHANGED <<notCandVars, candA, candB, result>>

\* lines 637-649: one iteration of the scan of a, with its merge
CandStep ==
    /\ pc = "candloop"
    /\ ci <= Len(candA)
    /\ LET sel == firstAbove(eqClasses(candB, candA[ci]), 1, prev[ci])
           newCandidates == IF sel = <<>> THEN <<>> ELSE <<Cand(ci, sel[1])>>
       IN  /\ prev' = IF sel = <<>> THEN prev
                      ELSE [prev EXCEPT ![ci + 1] = sel[1]]
           /\ candidates' = mergeCandidates(candidates, newCandidates)
    /\ ci' = ci + 1
    /\ UNCHANGED <<notCandVars, candA, candB, result, pc>>

\* line 651: the candidates as 0-based pairs
CandReturn ==
    /\ pc = "candloop"
    /\ ci > Len(candA)
    /\ result' = [n \in 1..Len(candidates) |->
                      Cand(candidates[n].i - 1, candidates[n].j - 1)]
    /\ pc' = "canddone"
    /\ UNCHANGED <<notCandVars, candA, candB, candidates, prev, ci>>

NextCand == CandEmpty \/ CandStart \/ CandStep \/ CandReturn

SpecCand == InitCand /\ [][NextCand]_vars

\* candidateLCS as one call: the scan of lines 637-649 from index n on
RECURSIVE candidateScan(_, _, _, _, _)
candidateScan(x, y, n, pv, cs) ==
    IF n > Len(x) THEN cs
    ELSE LET sel == firstAbove(eqClasses(y, x[n]), 1, pv[n])
             newCandidates == IF sel = <<>> THEN <<>> ELSE <<Cand(n, sel[1])>>
         IN  candidateScan(x, y, n + 1,
                           IF sel = <<>> THEN pv ELSE [pv EXCEPT ![n + 1] = sel[1]],
                           mergeCandidates(cs, newCandidates))

\* candidateLCS, lines 616-652
candidateLCS(x, y) ==
    IF Len(x) = 0 \/ Len(y) = 0 THEN <<>>
    ELSE LET cs == candidateScan(x, y, 1, [n \in 1..(Len(x) + 1) |-> 0],
                                 <<Cand(0, 0)>>)
         IN  [n \in 1..Len(cs) |-> Cand(cs[n].i - 1, cs[n].j - 1)]

(***************************************************************************)
(* The revision of diff that calls candidateLCS (home.js, lines 725-773),  *)
(* on strings.  It uses the variables of a call of diff; lcs holds         *)
(* lcsIndices, and a text is the sequence of its characters.               *)
(***************************************************************************)
substring(x, from, to) == slice(x, from, to)

InitCandDiff ==
    /\ argA \in SeqsUpTo(CandChars, MaxCandLen)
    /\ argB \in SeqsUpTo(CandChars, MaxCandLen)
    /\ a = argA
    /\ b = argB
    /\ diffs = <<>>
    /\ prefixLength = 0
    /\ suffixLength = 0
    /\ suffix = <<>>
    /\ lcs = <<>>
    /\ i = 0
    /\ j = 0
    /\ k = 0
    /\ pc = "cdstart"
    /\ NotDiffIdle

\* lines 726-746: trim the common prefix, then the common suffix of what is
\* left, then the candidates of the interiors
CandDiffStart ==
    /\ pc = "cdstart"
    /\ LET p  == commonPrefix(a, b)
           a1 == IF p > 0 THEN substring(a, p, Len(a)) ELSE a
           b1 == IF p > 0 THEN substring(b, p, Len(b)) ELSE b
           s  == commonSuffix(a1, b1)
           a2 == IF s > 0 THEN substring(a1, 0, Len(a1) - s) ELSE a1
           b2 == IF s > 0 THEN substring(b1, 0, Len(b1) - s) ELSE b1
       IN  /\ prefixLength' = p
           /\ diffs' = IF p > 0
                       THEN Append(diffs, Op("equal", substring(a, 0, p)))
                       ELSE diffs
           /\ suffixLength' = s
           /\ suffix' = IF s > 0
                        THEN substring(a1, Len(a1) - s, Len(a1))
                        ELSE <<>>
           /\ a' = a2
           /\ b' = b2
           /\ lcs' = candidateLCS(a2, b2)
    /\ i' = 0
    /\ j' = 0
    /\ k' = 0
    /\ pc' = "cdwalk"
    /\ UNCHANGED <<notDiffVars, argA, argB>>

\* lines 749-764: one iteration of the loop
CandDiffWalk ==
    /\ pc = "cdwalk"
    /\ i < Len(a) \/ j < Len(b)
    /\ IF k < Len(lcs) /\ i = lcs[k + 1].i /\ j = lcs[k + 1].j
       THEN /\ diffs' = Append(diffs, Op("equal", <<a[i + 1]>>))
            /\ i' = i + 1
            /\ j' = j + 1
            /\ k' = k + 1
       ELSE LET del == i < Len(a) /\ (k >= Len(lcs) \/ i # lcs[k + 1].i)
                ins == j < Len(b) /\ (k >= Len(lcs) \/ j # lcs[k + 1].j)
                d1  == IF del THEN Append(diffs, Op("delete", <<a[i + 1]>>))
                       ELSE diffs
                d2  == IF ins THEN Append(d1, Op("insert", <<b[j + 1]>>))
                       ELSE d1
            IN  /\ diffs' = d2
                /\ i' = IF del THEN i + 1 ELSE i
                /\ j' = IF ins THEN j + 1 ELSE j
                /\ k' = k
    /\ UNCHANGED <<notDiffVars, argA, argB, a, b, prefixLength, suffixLength,
                   suffix, lcs, pc>>

\* lines 766-771: the loop is over; append the suffix and return
CandDiffReturn ==
    /\ pc = "cdwalk"
    /\ ~(i < Len(a) \/ j < Len(b))
    /\ diffs' = IF suffixLength > 0
                THEN Append(diffs, Op("equal", suffix))
                ELSE diffs
    /\ pc' = "cddone"
    /\ UNCHANGED <<notDiffVars, argA, argB, a, b, prefixLength, suffixLength,
                   suffix, lcs, i, j, k>>

NextCandDiff == CandDiffStart \/ CandDiffWalk \/ CandDiffReturn

SpecCandDiff == InitCandDiff /\ [][NextCandDiff]_vars

(***************************************************************************)
(* The engine of diff.js under a failure of the environment.  The only     *)
(* abnormal condition is resource exhaustion, an exception thrown where    *)
(* the code allocates or iterates.  fault names the site that throws       *)
(* during one top-level call:                                              *)
(*   "trim"         a slice or join of the trimming of diff (139-151),     *)
(*                  which is outside the try of diff;                      *)
(*   "hirschberg"   a slice of the outermost recursive step of             *)
(*                  hirschbergLCS (26-28), inside its try;                 *)
(*   "lengthsAlloc" the allocation of the rows of the lcsLengths calls of  *)
(*                  that step (54-56), outside the try of lcsLengths: its  *)
(*                  promise rejects and the await of Promise.all throws    *)
(*                  inside the try of hirschbergLCS;                       *)
(*   "lengthsLoop"  the loop of those lcsLengths calls (59-69), inside     *)
(*                  their try;                                             *)
(*   "walk"         a push of the loop of diff (162-174), inside its try.  *)
(* A site that the call does not execute raises nothing.  Every operator   *)
(* returns how its promise settles: kind is "fulfilled" or "rejected",     *)
(* value the value of a fulfilled promise, failed whether the site threw.  *)
(***************************************************************************)
Faults == { "none", "trim", "hirschberg", "lengthsAlloc", "lengthsLoop", "walk" }

Fulfilled(value, failed) ==
    [kind |-> "fulfilled", value |-> value, failed |-> failed]

Rejected == [kind |-> "rejected", value |-> <<>>, failed |-> TRUE]

\* lcsLengths, lines 53-74, with the catch of lines 70-73
lcsLengthsSettled(x, y, f) ==
    IF f = "lengthsAlloc" THEN Rejected
    ELSE IF f = "lengthsLoop" THEN Fulfilled(<<>>, TRUE)
    ELSE Fulfilled(lcsLengths(x, y), FALSE)

\* hirschbergLCS, lines 16-45, with the catch of lines 41-44; the recursive
\* calls below the outermost step meet no failure
hirschbergLCSSettled(x, y, f) ==
    IF Len(x) = 0 THEN Fulfilled(<<>>, FALSE)
    ELSE IF Len(x) = 1
    THEN Fulfilled(IF includes(y, x[1]) THEN <<x[1]>> ELSE <<>>, FALSE)
    ELSE IF Len(y) = 1
    THEN Fulfilled(IF includes(x, y[1]) THEN <<y[1]>> ELSE <<>>, FALSE)
    ELSE IF f = "hirschberg" THEN Fulfilled(<<>>, TRUE)
    ELSE LET mid == Len(x) \div 2
             l1 == lcsLengthsSettled(slice(x, 0, mid), y, f)
             l2 == lcsLengthsSettled(reverseArray(slice(x, mid, Len(x))),
                                     reverseArray(y), f)
         IN  IF l1.kind = "rejected" \/ l2.kind = "rejected"
             THEN Fulfilled(<<>>, TRUE)
             ELSE LET partition == findPartition(l1.value, l2.value)
                  IN  Fulfilled(
                          hirschbergLCS(slice(x, 0, mid), slice(y, 0, partition))
                          \o hirschbergLCS(slice(x, mid, Len(x)),
                                           slice(y, partition, Len(y))),
                          l1.failed \/ l2.failed)

\* the loop of diff, lines 160-177; the code has no exit when no branch
\* fires, the operator then returns what it has with a "stuck" entry
RECURSIVE walk(_, _, _, _, _, _, _)
walk(x, y, l, wi, wj, wk, acc) ==
    IF ~(wi < Len(x) \/ wj < Len(y)) THEN acc
    ELSE IF wk < Len(l) /\ At(x, wi) = At(l, wk) /\ At(y, wj) = At(l, wk)
    THEN walk(x, y, l, wi + 1, wj + 1, wk + 1,
              Append(acc, Op("equal", At(l, wk))))
    ELSE LET del == wi < Len(x) /\ (wk >= Len(l) \/ At(x, wi) # At(l, wk))
             ins == wj < Len(y) /\ (wk >= Len(l) \/ At(y, wj) # At(l, wk))
             d1  == IF del THEN Append(acc, Op("delete", At(x, wi))) ELSE acc
             d2  == IF ins THEN Append(d1, Op("insert", At(y, wj))) ELSE d1
         IN  IF ~del /\ ~ins THEN Append(acc, Op("stuck", <<>>))
             ELSE walk(x, y, l, IF del THEN wi + 1 ELSE wi,
                       IF ins THEN wj + 1 ELSE wj, wk, d2)

\* diff, lines 135-189, with the catch of lines 185-188
diff(x, y, f) ==
    LET p  == commonPrefix(x, y)
        a1 == IF p > 0 THEN slice(x, p, Len(x)) ELSE x
        b1 == IF p > 0 THEN slice(y, p, Len(y)) ELSE y
        s  == commonSuffix(a1, b1)
        a2 == IF s > 0 THEN slice(a1, 0, Len(a1) - s) ELSE a1
        b2 == IF s > 0 THEN slice(b1, 0, Len(b1) - s) ELSE b1
        d0 == IF p > 0 THEN <<Op("equal", join(slice(x, 0, p)))>> ELSE <<>>
        sx == IF s > 0 THEN join(slice(a1, Len(a1) - s, Len(a1))) ELSE <<>>
        h  == hirschbergLCSSettled(a2, b2, f)
    IN  IF f = "trim" /\ (p > 0 \/ s > 0) THEN Rejected
        ELSE IF f = "walk" /\ (Len(a2) > 0 \/ Len(b2) > 0)
        THEN Fulfilled(<<>>, TRUE)
        ELSE LET d1 == walk(a2, b2, h.value, 0, 0, 0, d0)
             IN  Fulfilled(IF s > 0 THEN Append(d1, Op("equal", sx)) ELSE d1,
                           h.failed)

(***************************************************************************)
(* escapeHtml (diff.js, lines 261-270) and the rendering of one part of    *)
(* the script (lines 230-241).  A line of markup is a sequence whose       *)
(* elements are the characters of text and, each as one element, the tags  *)
(* that findDifference writes itself.                                      *)
(***************************************************************************)
map ==
    [c \in { "&", "<", ">", "\"", "'" } |->
        CASE c = "&"  -> <<"&", "a", "m", "p", ";">>
          [] c = "<"  -> <<"&", "l", "t", ";">>
          [] c = ">"  -> <<"&", "g", "t", ";">>
          [] c = "\"" -> <<"&", "q", "u", "o", "t", ";">>
          [] c = "'"  -> <<"&", "#", "0", "3", "9", ";">>]

\* a replace whose expression lacks the g flag: only the first match
RECURSIVE escapeHtmlFirstOnly(_)
escapeHtmlFirstOnly(text) ==
    IF text = <<>> THEN <<>>
    ELSE IF Head(text) \in DOMAIN map THEN map[Head(text)] \o Tail(text)
    ELSE <<Head(text)>> \o escapeHtmlFirstOnly(Tail(text))

\* text.replace(/[&<>"']/g, m => map[m])
RECURSIVE escapeHtml(_)
escapeHtml(text) ==
    IF text = <<>> THEN <<>>
    ELSE (IF Head(text) \in DOMAIN map THEN map[Head(text)]
          ELSE <<Head(text)>>) \o escapeHtml(Tail(text))

repeat(c, n) == [m \in 1..n |-> c]

SpanDeleted == "<span class=\"deleted\">"
SpanAdded == "<span class=\"added\">"
SpanPlaceholder == "<span class=\"placeholder\">"
SpanEnd == "</span>"

\* what one iteration of the forEach appends to the two lines
renderPart(part) ==
    IF part.operation = "delete"
    THEN [deleted  |-> <<SpanDeleted>> \o escapeHtml(part.text) \o <<SpanEnd>>,
          inserted |-> <<SpanPlaceholder>> \o repeat(" ", Len(part.text))
                       \o <<SpanEnd>>]
    ELSE IF part.operation = "insert"
    THEN [deleted  |-> <<SpanPlaceholder>> \o repeat(" ", Len(part.text))
                       \o <<SpanEnd>>,
          inserted |-> <<SpanAdded>> \o escapeHtml(part.text) \o <<SpanEnd>>]
    ELSE [deleted  |-> escapeHtml(part.text),
          inserted |-> escapeHtml(part.text)]

(***************************************************************************)
(* findDifference (diff.js, lines 195-254), one call.  The call reads the  *)
(* fields, clears the result area and tokenizes; for different strings it  *)
(* awaits diff and goes on when the promise has settled.                   *)
(***************************************************************************)
Written(kind) == [kind |-> kind]

\* lines 196-213, identical strings: the message, and diff is not called
FDIdentical ==
    /\ pc = "fd"
    /\ string1 = string2
    /\ tokens1' = splitIntoTokens(string1)
    /\ tokens2' = splitIntoTokens(string2)
    /\ resultArea' = Written("identical")
    /\ pc' = "fddone"
    /\ UNCHANGED <<notUIVars, string1, string2, fault, outcome, deletedParts,
                   insertedParts, rn>>

\* lines 196-216, different strings: up to the await of diff
FDCallDiff ==
    /\ pc = "fd"
    /\ string1 # string2
    /\ tokens1' = splitIntoTokens(string1)
    /\ tokens2' = splitIntoTokens(string2)
    /\ resultArea' = Written("empty")
    /\ outcome' = diff(splitIntoTokens(string1), splitIntoTokens(string2),
                       fault)
    /\ pc' = "fdawait"
    /\ UNCHANGED <<notUIVars, string1, string2, fault, deletedParts,
                   insertedParts, rn>>

\* lines 218-224: the promise is fulfilled with an empty script
FDNoDiff ==
    /\ pc = "fdawait"
    /\ outcome.kind = "fulfilled"
    /\ Len(outcome.value) = 0
    /\ resultArea' = Written("nodiff")
    /\ pc' = "fddone"
    /\ UNCHANGED <<notUIVars, string1, string2, fault, tokens1, tokens2,
                   outcome, deletedParts, insertedParts, rn>>

\* lines 226-227: the promise is fulfilled with a script; the lines start
\* empty
FDRenderStart ==
    /\ pc = "fdawait"
    /\ outcome.kind = "fulfilled"
    /\ Len(outcome.value) # 0
    /\ deletedParts' = <<>>
    /\ insertedParts' = <<>>
    /\ rn' = 0
    /\ pc' = "render"
    /\ UNCHANGED <<notUIVars, string1, string2, fault, tokens1, tokens2,
                   outcome, resultArea>>

\* lines 230-241: one iteration of the forEach
FDRenderPart ==
    /\ pc = "render"
    /\ rn < Len(outcome.value)
    /\ deletedParts' = deletedParts \o renderPart(outcome.value[rn + 1]).deleted
    /\ insertedParts' =
           insertedParts \o renderPart(outcome.value[rn + 1]).inserted
    /\ rn' = rn + 1
    /\ UNCHANGED <<notUIVars, string1, string2, fault, tokens1, tokens2,
                   outcome, resultArea, pc>>

\* lines 243-249: the two lines go to the result area
FDRenderDone ==
    /\ pc = "render"
    /\ rn = Len(outcome.value)
    /\ resultArea' = [kind |-> "rendered", deleted |-> deletedParts,
                      inserted |-> insertedParts]
    /\ pc' = "fddone"
    /\ UNCHANGED <<notUIVars, string1, string2, fault, tokens1, tokens2,
                   outcome, deletedParts, insertedParts, rn>>

\* lines 250-253: the promise is rejected
FDCatch ==
    /\ pc = "fdawait"
    /\ outcome.kind = "rejected"
    /\ resultArea' = Written("error")
    /\ pc' = "fddone"
    /\ UNCHANGED <<notUIVars, string1, string2, fault, tokens1, tokens2,
                   outcome, deletedParts, insertedParts, rn>>

UIChars == { "a", "b", " " }

InitUI ==
    /\ string1 \in SeqsUpTo(UIChars, MaxUILen)
    /\ string2 \in SeqsUpTo(UIChars, MaxUILen)
    /\ fault \in Faults
    /\ tokens1 = <<>>
    /\ tokens2 = <<>>
    /\ outcome = [kind |-> "pending"]
    /\ deletedParts = <<>>
    /\ insertedParts = <<>>
    /\ rn = 0
    /\ resultArea = Written("empty")
    /\ pc = "fd"
    /\ NotUIIdle

NextUI ==
    \/ FDIdentical
    \/ FDCallDiff
    \/ FDNoDiff
    \/ FDRenderStart
    \/ FDRenderPart
    \/ FDRenderDone
    \/ FDCatch

SpecUI == InitUI /\ [][NextUI]_vars

(***************************************************************************)
(* The same call on fields that hold the characters escapeHtml replaces,   *)
(* without a failure of the environment.                                   *)
(***************************************************************************)
EscChars == { "a", "&", "<", ">", "\"", "'" }

InitEsc ==
    /\ string1 \in SeqsUpTo(EscChars, MaxEscLen)
    /\ string2 \in SeqsUpTo(EscChars, MaxEscLen)
    /\ fault = "none"
    /\ tokens1 = <<>>
    /\ tokens2 = <<>>
    /\ outcome = [kind |-> "pending"]
    /\ deletedParts = <<>>
    /\ insertedParts = <<>>
    /\ rn = 0
    /\ resultArea = Written("empty")
    /\ pc = "fd"
    /\ NotUIIdle

NextEsc ==
    \/ FDIdentical
    \/ FDCallDiff
    \/ FDRenderStart
    \/ FDRenderPart
    \/ FDRenderDone

SpecEsc == InitEsc /\ [][NextEsc]_vars

(***************************************************************************)
(* hirschbergLCS of diff.js (lines 16-45) as asynchronous invocations.  An *)
(* async function runs without interruption up to its next await, so a    *)
(* step is the code between two awaits.  lcsLengths holds no await: both   *)
(* calls of line 27-28 run, one after the other, inside the step that      *)
(* makes them, and the await of Promise.all suspends the invocation.  The  *)
(* continuations of suspended invocations may run in any order.            *)
(***************************************************************************)
ForkTokens == { <<"a">>, <<"b">> }

Self(p) == <<p, "self">>

\* an lcsLengths whose rows are two arrays of the module, shared by all calls
rowIdShared(p, side, name) == <<<<>>, "module", name>>

\* lcsLengths, lines 55-56: each call allocates its two rows
rowId(p, side, name) == <<p, side, name>>

\* lcsLengths, lines 58-69: the rows change roles after every outer
\* iteration, and the call returns the one called previous at the end
returnedRow(p, side, x) ==
    IF Len(x) % 2 = 1 THEN rowId(p, side, "current")
    ELSE rowId(p, side, "previous")

otherRow(p, side, x) ==
    IF Len(x) % 2 = 1 THEN rowId(p, side, "previous")
    ELSE rowId(p, side, "current")

\* one call lcsLengths(x, y) made by invocation p; yid is the array it is
\* given as b
runLengths(st, p, side, x, y, yid) ==
    LET owner == <<p, side>>
        last  == IF Len(x) = 0 THEN [n \in 1..(Len(y) + 1) |-> 0]
                 ELSE lcsLengths(SubSeq(x, 1, Len(x) - 1), y)
    IN  [st EXCEPT
           !.heap   = (returnedRow(p, side, x) :> lcsLengths(x, y))
                      @@ (otherRow(p, side, x) :> last) @@ @,
           !.reads  = @ \cup { <<owner, <<p, side, "a">>>>, <<owner, yid>>,
                               <<owner, rowId(p, side, "current")>>,
                               <<owner, rowId(p, side, "previous")>> },
           !.writes = @ \cup { <<owner, rowId(p, side, "current")>>,
                               <<owner, rowId(p, side, "previous")>> }]

Call(state, x, y, l1, l2, partition, res) ==
    [st |-> state, a |-> x, b |-> y, l1 |-> l1, l2 |-> l2,
     partition |-> partition, result |-> res]

\* lines 17-29: the call of invocation p up to its first await, or to its
\* return in a base case
start(st, p, x, y) ==
    LET s0 == [st EXCEPT !.reads = @ \cup { <<Self(p), <<p, "a">>>>,
                                            <<Self(p), <<p, "b">>>> }]
        base(res) ==
            [s0 EXCEPT
               !.calls  = (p :> Call("done", x, y, <<>>, <<>>, -1, res)) @@ @,
               !.writes = @ \cup { <<Self(p), <<p, "result">>>> }]
    IN  IF Len(x) = 0 THEN base(<<>>)
        ELSE IF Len(x) = 1
        THEN base(IF includes(y, x[1]) THEN <<x[1]>> ELSE <<>>)
        ELSE IF Len(y) = 1
        THEN base(IF includes(x, y[1]) THEN <<y[1]>> ELSE <<>>)
        ELSE LET mid == Len(x) \div 2
                 fa  == slice(x, 0, mid)
                 ra  == reverseArray(slice(x, mid, Len(x)))
                 rb  == reverseArray(y)
                 s1  == [s0 EXCEPT !.writes = @ \cup
                            { <<Self(p), <<p, "f", "a">>>>,
                              <<Self(p), <<p, "r", "a">>>>,
                              <<Self(p), <<p, "r", "b">>>> }]
                 s2  == runLengths(s1, p, "f", fa, y, <<p, "b">>)
                 s3  == runLengths(s2, p, "r", ra, rb, <<p, "r", "b">>)
             IN  [s3 EXCEPT !.calls =
                     (p :> Call("await1", x, y, returnedRow(p, "f", fa),
                                returnedRow(p, "r", ra), -1, <<>>)) @@ @]

\* lines 31-38: both rows have arrived; the partition, then the two
\* recursive calls, each up to its first await, then the second await
resume1(st, p) ==
    LET t   == st.calls[p]
        mid == Len(t.a) \div 2
        partition == findPartition(st.heap[t.l1], st.heap[t.l2])
        pL  == Append(p, "L")
        pR  == Append(p, "R")
        s1  == [st EXCEPT
                  !.calls[p].partition = partition,
                  !.calls[p].st = "await2",
                  !.reads  = @ \cup { <<Self(p), t.l1>>, <<Self(p), t.l2>>,
                                      <<Self(p), <<p, "a">>>>,
                                      <<Self(p), <<p, "b">>>> },
                  !.writes = @ \cup { <<Self(p), <<p, "l2Reversed">>>>,
                                      <<Self(p), <<pL, "a">>>>,
                                      <<Self(p), <<pL, "b">>>>,
                                      <<Self(p), <<pR, "a">>>>,
                                      <<Self(p), <<pR, "b">>>> }]
        s2  == start(s1, pL, slice(t.a, 0, mid), slice(t.b, 0, partition))
    IN  start(s2, pR, slice(t.a, mid, Len(t.a)),
              slice(t.b, partition, Len(t.b)))

\* lines 39-40: both recursive calls have returned; the concatenation
resume2(st, p) ==
    LET pL == Append(p, "L")
        pR == Append(p, "R")
    IN  [st EXCEPT
           !.calls[p].result = st.calls[pL].result \o st.calls[pR].result,
           !.calls[p].st = "done",
           !.reads  = @ \cup { <<Self(p), <<pL, "result">>>>,
                               <<Self(p), <<pR, "result">>>> },
           !.writes = @ \cup { <<Self(p), <<p, "result">>>> }]

Now == [calls |-> calls, heap |-> heap, reads |-> reads, writes |-> writes]

Becomes(st) ==
    /\ calls' = st.calls
    /\ heap' = st.heap
    /\ reads' = st.reads
    /\ writes' = st.writes

InitFork ==
    /\ forkA \in SeqsUpTo(ForkTokens, MaxForkLen)
    /\ forkB \in SeqsUpTo(ForkTokens, MaxForkLen)
    /\ calls = <<>>
    /\ heap = <<>>
    /\ reads = {}
    /\ writes = {}
    /\ pc = "fork"
    /\ NotForkIdle

\* the top-level call
HirschbergStart ==
    /\ pc = "fork"
    /\ Becomes(start(Now, <<>>, forkA, forkB))
    /\ pc' = "forked"
    /\ UNCHANGED <<notForkVars, forkA, forkB>>

\* the continuation of an invocation after its first await
HirschbergResume1 ==
    /\ pc = "forked"
    /\ \E p \in DOMAIN calls :
           /\ calls[p].st = "await1"
           /\ Becomes(resume1(Now, p))
    /\ UNCHANGED <<notForkVars, forkA, forkB, pc>>

\* the continuation of an invocation after its second await, which
\* Promise.all lets through when both recursive calls have returned
HirschbergResume2 ==
    /\ pc = "forked"
    /\ \E p \in DOMAIN calls :
           /\ calls[p].st = "await2"
           /\ calls[Append(p, "L")].st = "done"
           /\ calls[Append(p, "R")].st = "done"
           /\ Becomes(resume2(Now, p))
    /\ UNCHANGED <<notForkVars, forkA, forkB, pc>>

NextFork == HirschbergStart \/ HirschbergResume1 \/ HirschbergResume2

SpecFork == InitFork /\ [][NextFork]_vars

(***************************************************************************)
(* The compare button (diff.js, lines 272-273).  A click is an event of    *)
(* the page: its event loop dispatches one only when no script runs        *)
(* and the microtask queue is empty.  The listener runs findDifference up  *)
(* to its first await; every await of the engine waits for a promise that  *)
(* other code of the engine settles, so every continuation is a microtask. *)
(* Which of several pending continuations runs next is left open.          *)
(***************************************************************************)
ClickChars == { "a", " " }

\* the awaits that follow one another in a call of hirschbergLCS (lines 26
\* and 35)
RECURSIVE awaitsOfLCS(_, _)
awaitsOfLCS(x, y) ==
    IF Len(x) <= 1 \/ Len(y) = 1 THEN 0
    ELSE LET mid == Len(x) \div 2
             l1 == lcsLengths(slice(x, 0, mid), y)
             l2 == lcsLengths(reverseArray(slice(x, mid, Len(x))),
                              reverseArray(y))
             partition == findPartition(l1, l2)
         IN  2 + Max(awaitsOfLCS(slice(x, 0, mid), slice(y, 0, partition)),
                     awaitsOfLCS(slice(x, mid, Len(x)),
                                 slice(y, partition, Len(y))))

\* the awaits of findDifference (line 216), of diff (line 157) and of the
\* hirschbergLCS it calls on the trimmed sequences
awaitsOf(x, y) ==
    LET p  == commonPrefix(x, y)
        a1 == IF p > 0 THEN slice(x, p, Len(x)) ELSE x
        b1 == IF p > 0 THEN slice(y, p, Len(y)) ELSE y
        s  == commonSuffix(a1, b1)
        a2 == IF s > 0 THEN slice(a1, 0, Len(a1) - s) ELSE a1
        b2 == IF s > 0 THEN slice(b1, 0, Len(b1) - s) ELSE b1
    IN  2 + awaitsOfLCS(a2, b2)

\* lines 226-249: the two lines of a script
RECURSIVE renderLines(_, _, _)
renderLines(script, deleted, inserted) ==
    IF script = <<>>
    THEN [kind |-> "rendered", deleted |-> deleted, inserted |-> inserted]
    ELSE renderLines(Tail(script),
                     deleted \o renderPart(Head(script)).deleted,
                     inserted \o renderPart(Head(script)).inserted)

\* lines 215-253: what findDifference writes when its await is over
written(settled) ==
    IF settled.kind = "rejected" THEN Written("error")
    ELSE IF Len(settled.value) = 0 THEN Written("nodiff")
    ELSE renderLines(settled.value, <<>>, <<>>)

Invocation(state, s1, s2, remaining) ==
    [st |-> state, string1 |-> s1, string2 |-> s2, remaining |-> remaining]

NotStarted == Invocation("none", <<>>, <<>>, 0)

InitClicks ==
    /\ clicks = 0
    /\ inv = [n \in 1..MaxClicks |-> NotStarted]
    /\ area = [content |-> Written("empty"), by |-> 0]
    /\ writers = <<>>
    /\ pc = "page"
    /\ NotClickIdle

\* the body of the listener: findDifference up to its return for identical
\* strings (lines 196-213) or to its first await (line 216)
Listener(s1, s2) ==
    /\ clicks' = clicks + 1
    /\ IF s1 = s2
       THEN /\ inv' = [inv EXCEPT ![clicks + 1] = Invocation("done", s1, s2, 0)]
            /\ area' = [content |-> Written("identical"), by |-> clicks + 1]
            /\ writers' = writers \o <<clicks + 1, clicks + 1>>
       ELSE /\ inv' = [inv EXCEPT ![clicks + 1] =
                          Invocation("suspended", s1, s2,
                                     awaitsOf(splitIntoTokens(s1),
                                              splitIntoTokens(s2)))]
            /\ area' = [content |-> Written("empty"), by |-> clicks + 1]
            /\ writers' = Append(writers, clicks + 1)
    /\ UNCHANGED <<notClickVars, pc>>

\* an event loop that takes the click while continuations are pending
ClickBeforeCheckpoint ==
    /\ pc = "page"
    /\ clicks < MaxClicks
    /\ \E s1, s2 \in SeqsUpTo(ClickChars, MaxClickLen) : Listener(s1, s2)

\* a click with the fields as the user left them, dispatched by the event
\* loop
Click ==
    /\ pc = "page"
    /\ clicks < MaxClicks
    /\ \A n \in 1..MaxClicks : inv[n].st # "suspended"
    /\ \E s1, s2 \in SeqsUpTo(ClickChars, MaxClickLen) : Listener(s1, s2)

\* a continuation inside the engine: one await of the chain is over
EngineContinue ==
    /\ pc = "page"
    /\ \E n \in 1..MaxClicks :
           /\ inv[n].st = "suspended"
           /\ inv[n].remaining > 1
           /\ inv' = [inv EXCEPT ![n].remaining = @ - 1]
    /\ UNCHANGED <<notClickVars, clicks, area, writers, pc>>

\* the continuation of findDifference after its await (lines 216-253)
FDContinue ==
    /\ pc = "page"
    /\ \E n \in 1..MaxClicks :
           /\ inv[n].st = "suspended"
           /\ inv[n].remaining = 1
           /\ inv' = [inv EXCEPT ![n].st = "done", ![n].remaining = 0]
           /\ area' = [content |->
                           written(diff(splitIntoTokens(inv[n].string1),
                                        splitIntoTokens(inv[n].string2),
                                        "none")),
                       by |-> n]
           /\ writers' = Append(writers, n)
    /\ UNCHANGED <<notClickVars, clicks, pc>>

NextClicks == Click \/ EngineContinue \/ FDContinue

SpecClicks == InitClicks /\ [][NextClicks]_vars

(***************************************************************************)
(* Vocabulary of the properties.                                           *)
(***************************************************************************)
\* the text of a sequence of strings, one after the other
RECURSIVE Text(_)
Text(ss) == IF ss = <<>> THEN <<>> ELSE Head(ss) \o Text(Tail(ss))

\* the operations of a script that are not `operation`, in order
Without(script, operation) ==
    SelectSeq(script, LAMBDA d : d.operation # operation)

TextsOf(script) == [n \in 1..Len(script) |-> script[n].text]

Count(script, operation) ==
    Cardinality({ n \in 1..Len(script) : script[n].operation = operation })

\* s is a subsequence of t
RECURSIVE IsSubsequence(_, _)
IsSubsequence(s, t) ==
    IF s = <<>> THEN TRUE
    ELSE IF t = <<>> THEN FALSE
    ELSE IF Head(s) = Head(t) THEN IsSubsequence(Tail(s), Tail(t))
    ELSE IsSubsequence(s, Tail(t))

\* the elements of s at the indices in S, in order
RECURSIVE Pick(_, _, _)
Pick(s, S, n) ==
    IF n > Len(s) THEN <<>>
    ELSE IF n \in S THEN <<s[n]>> \o Pick(s, S, n + 1)
    ELSE Pick(s, S, n + 1)

\* the length of the longest common subsequences of s and t, by enumeration
CommonLengths(s, t) ==
    { Cardinality(S) : S \in { T \in SUBSET (1..Len(s)) :
                                 IsSubsequence(Pick(s, T, 1), t) } }

TrueLCSLength(s, t) ==
    CHOOSE n \in CommonLengths(s, t) : \A m \in CommonLengths(s, t) : m <= n

(***************************************************************************)
(* C1  Reconstruction: in the script diff returns, the texts of the equal  *)
(* and delete operations, in order, spell the first argument and the texts *)
(* of the equal and insert operations spell the second.                    *)
(***************************************************************************)
C1_Reconstruction ==
    pc = "done" =>
        /\ Text(TextsOf(Without(diffs, "insert"))) = Text(argA)
        /\ Text(TextsOf(Without(diffs, "delete"))) = Text(argB)

C1_Witness ==
    /\ pc = "done"
    /\ prefixLength > 0
    /\ suffixLength > 0
    /\ Count(diffs, "delete") > 0
    /\ Count(diffs, "insert") > 0
    /\ Count(diffs, "equal") > 2

(***************************************************************************)
(* C2  The sequence hirschbergLCS returns is a subsequence of its first    *)
(* argument and of its second argument.                                    *)
(***************************************************************************)
C2_CommonSubsequence ==
    pc = "lcsdone" => IsSubsequence(lcs, a) /\ IsSubsequence(lcs, b)

\* a call that reaches the single-element base case on b through recursion
C2_Witness ==
    /\ pc = "lcsdone"
    /\ Len(a) >= 3
    /\ Len(b) = 2
    /\ Len(lcs) = 2
    /\ lcs # slice(a, 0, 2)

(***************************************************************************)
(* C3  The length of hirschbergLCS(a, b) is the length of the result of    *)
(* the full-table dynamic program, and no common subsequence is longer.    *)
(***************************************************************************)
C3_Longest ==
    pc = "lcsdone" =>
        /\ Len(lcs) = Len(longestCommonSubsequence(a, b))
        /\ Len(lcs) = TrueLCSLength(a, b)

C3_Witness ==
    /\ pc = "lcsdone"
    /\ Len(a) = MaxLen
    /\ Len(b) = MaxLen
    /\ Len(lcs) = 2
    /\ a[1] # b[1]
    /\ a[Len(a)] # b[Len(b)]

(***************************************************************************)
(* C4  Identity: diff(a, a) returns only equal operations and their text   *)
(* is the text of a.                                                       *)
(***************************************************************************)
C4_Identity ==
    (pc = "done" /\ argA = argB) =>
        /\ \A n \in 1..Len(diffs) : diffs[n].operation = "equal"
        /\ Text(TextsOf(diffs)) = Text(argA)

C4_Witness ==
    /\ pc = "done"
    /\ argA = argB
    /\ Len(argA) >= 2
    /\ Len(diffs) = 1

(***************************************************************************)
(* C5  Empty-input boundary: diff([], []) is empty, diff([], b) is one     *)
(* insert per token of b in order, diff(a, []) is one delete per token of  *)
(* a in order.                                                             *)
(***************************************************************************)
C5_EmptyInput ==
    pc = "done" =>
        /\ (argA = <<>> =>
               diffs = [n \in 1..Len(argB) |-> Op("insert", argB[n])])
        /\ (argB = <<>> =>
               diffs = [n \in 1..Len(argA) |-> Op("delete", argA[n])])

\* a has two or more tokens, so hirschbergLCS recursed with an empty b
C5_Witness ==
    /\ pc = "done"
    /\ argB = <<>>
    /\ Len(argA) >= 2
    /\ Len(diffs) = Len(argA)

(***************************************************************************)
(* C7  The suffix is measured on the prefix-trimmed sequences: prefix and  *)
(* suffix together are no longer than the shorter argument, the interiors  *)
(* handed to hirschbergLCS are what is left between them, and two          *)
(* non-empty interiors differ in their first and in their last token.      *)
(***************************************************************************)
C7_AffixesDisjoint ==
    pc \in {"walk", "done"} =>
        /\ prefixLength >= 0
        /\ suffixLength >= 0
        /\ prefixLength + suffixLength <= Min(Len(argA), Len(argB))
        /\ Len(a) = Len(argA) - prefixLength - suffixLength
        /\ Len(b) = Len(argB) - prefixLength - suffixLength
        /\ a = SubSeq(argA, prefixLength + 1, Len(argA) - suffixLength)
        /\ b = SubSeq(argB, prefixLength + 1, Len(argB) - suffixLength)
        /\ (a # <<>> /\ b # <<>>) =>
               (a[1] # b[1] /\ a[Len(a)] # b[Len(b)])

\* the arguments share more matching ends than the shorter one has tokens
C7_Witness ==
    /\ pc = "walk"
    /\ argA # argB
    /\ commonPrefixLoop(argA, argB, 0) + commonSuffixLoop(argA, argB, 0)
           > Min(Len(argA), Len(argB))
    /\ prefixLength > 0
    /\ suffixLength > 0

(***************************************************************************)
(* C8  Trimming does not change what the script says: the tokens covered   *)
(* by equal operations, the delete operations and the insert operations    *)
(* are as many as in the script of the untrimmed revision, and the tokens  *)
(* covered by equal operations are as many as the LCS of the arguments is  *)
(* long.  The prefix and the suffix operation cover prefixLength and       *)
(* suffixLength tokens, every other equal operation covers one.            *)
(***************************************************************************)
EqualTokens ==
    prefixLength + suffixLength + Count(diffs, "equal")
        - (IF prefixLength > 0 THEN 1 ELSE 0)
        - (IF suffixLength > 0 THEN 1 ELSE 0)

C8_TrimmingPreservesCounts ==
    pc = "done" =>
        LET ref == diffUntrimmed(argA, argB)
        IN  /\ EqualTokens = Count(ref, "equal")
            /\ Count(diffs, "delete") = Count(ref, "delete")
            /\ Count(diffs, "insert") = Count(ref, "insert")
            /\ Count(ref, "stuck") = 0
            /\ EqualTokens = TrueLCSLength(argA, argB)

C8_Witness ==
    /\ pc = "done"
    /\ prefixLength > 0
    /\ suffixLength > 0
    /\ Len(lcs) > 0
    /\ Count(diffs, "delete") > 0
    /\ Count(diffs, "insert") > 0

(***************************************************************************)
(* C6  (as stated) every token is a run of word characters, or a run of    *)
(* whitespace characters, or exactly one character that is neither.        *)
(***************************************************************************)
AllIn(tok, Class(_)) == \A n \in 1..Len(tok) : Class(tok[n])

ClassOf(c) == IF isWord(c) THEN "word" ELSE IF isSpace(c) THEN "space"
              ELSE "other"

C9_ValidAlignment ==
    pc = "canddone" =>
        /\ \A n \in 1..Len(result) :
               /\ 0 <= result[n].i /\ result[n].i < Len(candA)
               /\ 0 <= result[n].j /\ result[n].j < Len(candB)
               /\ candA[result[n].i + 1] = candB[result[n].j + 1]
        /\ \A n \in 1..(Len(result) - 1) :
               /\ result[n].i < result[n + 1].i
               /\ result[n].j < result[n + 1].j

(***************************************************************************)
(* C10  The result of hirschbergLCS is at least as long as the result of   *)
(* candidateLCS, and as long when no element occurs twice in a or in b.    *)
(***************************************************************************)
Distinct(s) == \A m, n \in 1..Len(s) : s[m] = s[n] => m = n

C10_LengthOrder ==
    pc = "canddone" =>
        /\ Len(hirschbergLCSArray(candA, candB)) >= Len(result)
        /\ (Distinct(candA) /\ Distinct(candB)) =>
               Len(hirschbergLCSArray(candA, candB)) = Len(result)

(***************************************************************************)
(* C15  While candidateLCS scans a, every position it selects in b is      *)
(* greater than the position of the selection before it.  prev[i] holds    *)
(* the position selected for a[i - 1] and 0 when none was selected, so the *)
(* selections made so far are the entries of prev above 0, in scan order.  *)
(***************************************************************************)
C15_SelectionsIncrease ==
    pc \in {"candloop", "canddone"} =>
        \A m, n \in 1..Len(prev) :
            (m < n /\ prev[m] > 0 /\ prev[n] > 0) => prev[m] < prev[n]

(***************************************************************************)
(* C16  findPartition returns the lowest index that maximizes              *)
(* l1[p] + reverse(l2)[p], and leaves l1 and l2 as they were.              *)
(***************************************************************************)
PartitionSum(l1, l2, p) == l1[p + 1] + l2[Len(l2) - p]

C16_LowestMaximum ==
    [][ /\ fpL1' = fpL1
        /\ fpL2' = fpL2
        /\ pc' = "partdone" =>
               /\ fpIndex' \in 0..(Len(fpL1) - 1)
               /\ \A p \in 0..(Len(fpL1) - 1) :
                      /\ PartitionSum(fpL1, fpL2, p)
                             <= PartitionSum(fpL1, fpL2, fpIndex')
                      /\ p < fpIndex' =>
                             PartitionSum(fpL1, fpL2, p)
                                 < PartitionSum(fpL1, fpL2, fpIndex')
      ]_vars

\* the maximum is reached at the returned index and again further right
C16_Witness ==
    /\ pc = "partdone"
    /\ fpIndex > 0
    /\ \E p \in (fpIndex + 1)..(Len(fpL1) - 1) :
           PartitionSum(fpL1, fpL2, p) = PartitionSum(fpL1, fpL2, fpIndex)
    /\ fpL2 # reverseArray(fpL2)

(***************************************************************************)
(* C19  The tokenizer is lossless: no token is empty, the tokens in order  *)
(* spell the string, and the empty string has no tokens.                   *)
(***************************************************************************)
C19_Lossless ==
    pc = "tokdone" =>
        /\ \A n \in 1..Len(tokens) : Len(tokens[n]) >= 1
        /\ Text(tokens) = str
        /\ (str = <<>> <=> tokens = <<>>)

C19_Witness ==
    /\ pc = "tokdone"
    /\ Len(str) = MaxStrLen
    /\ Len(tokens) = 3
    /\ \E n \in 1..Len(tokens) : isSpace(tokens[n][1])

(***************************************************************************)
(* C17  diff terminates: every recursive call of hirschbergLCS has a       *)
(* shorter first argument than its caller, in every iteration of the loop  *)
(* a branch fires that advances i, j or k, and the call reaches its        *)
(* return.                                                                 *)
(***************************************************************************)
\* stated where the call has just returned
RecursionShrinks ==
    (pc = "walk" /\ i = 0 /\ j = 0) =>
        \A c \in recursiveCalls(a, b, MaxLen + 1) : Len(c[2]) < c[1]

IterationAdvances ==
    (pc = "walk" /\ (i < Len(a) \/ j < Len(b))) =>
        ENABLED <<WalkEqual \/ WalkElse>>_<<i, j, k>>

C17_Terminates ==
    /\ [](RecursionShrinks /\ IterationAdvances)
    /\ (pc = "walk") ~> (pc = "done" /\ i >= Len(a) /\ j >= Len(b))

\* a walk of a call that recursed and took both branches of the loop
C17_Witness ==
    /\ pc = "done"
    /\ Len(a) >= 3
    /\ Len(b) >= 2
    /\ k = Len(lcs)
    /\ k > 0
    /\ i + j > 2 * k


(***************************************************************************)
(* C13.  Escaping: the output of escapeHtml for a token text holds none of *)
(* the characters < > " ' and every & in it starts one of the entities     *)
(* &amp; &lt; &gt; &quot; &#039;, and the same holds of everything in the  *)
(* two result lines that is not a tag written by findDifference itself, so *)
(* every text in them went through escapeHtml.                             *)
(***************************************************************************)
Entities ==
    { <<"&", "a", "m", "p", ";">>, <<"&", "l", "t", ";">>,
      <<"&", "g", "t", ";">>, <<"&", "q", "u", "o", "t", ";">>,
      <<"&", "#", "0", "3", "9", ";">> }

Tags == { SpanDeleted, SpanAdded, SpanPlaceholder, SpanEnd }

Escaped(line) ==
    \A n \in 1..Len(line) :
        line[n] \notin Tags =>
            /\ line[n] \notin { "<", ">", "\"", "'" }
            /\ line[n] = "&" =>
                   \E e \in Entities :
                       /\ n + Len(e) - 1 <= Len(line)
                       /\ SubSeq(line, n, n + Len(e) - 1) = e

C13_Escaping ==
    /\ (pc = "render" /\ rn < Len(outcome.value)) =>
           Escaped(escapeHtml(outcome.value[rn + 1].text))
    /\ pc = "render" => Escaped(deletedParts) /\ Escaped(insertedParts)
    /\ resultArea.kind = "rendered" =>
           Escaped(resultArea.deleted) /\ Escaped(resultArea.inserted)

\* a finished call that embedded an escaped equal text, a deleted text and
\* a placeholder
C13_Witness ==
    /\ pc = "fddone"
    /\ resultArea.kind = "rendered"
    /\ resultArea.deleted[1] = "&"
    /\ \E n \in 1..Len(resultArea.deleted) : resultArea.deleted[n] = SpanDeleted
    /\ \E n \in 1..Len(resultArea.inserted) :
           resultArea.inserted[n] = SpanPlaceholder
    /\ \E n \in 1..Len(tokens1) : tokens1[n] \in { <<"<">>, <<"'">> }
(***************************************************************************)
(* C11.  A failure raised in lcsLengths, in hirschbergLCS or in the walk   *)
(* of diff is not caught inside the engine: the promise of diff is         *)
(* rejected, and diff returns no script after such a failure.              *)
(***************************************************************************)
C11_FailurePropagates ==
    (/\ outcome.kind # "pending"
     /\ fault \in { "hirschberg", "lengthsAlloc", "lengthsLoop", "walk" }
     /\ outcome.failed) => outcome.kind = "rejected"

(***************************************************************************)
(* C12.  Whenever the engine fails while two different strings are         *)
(* compared, findDifference ends with the generic error message in the     *)
(* result area, never with "No differences found." or a rendered diff.     *)
(***************************************************************************)
C12_GenericError ==
    (/\ pc = "fddone"
     /\ string1 # string2
     /\ outcome.failed) => resultArea.kind = "error"

(***************************************************************************)
(* C20.  For two different strings and without a failure the script that   *)
(* diff returns holds a delete or an insert; so "No differences found." is *)
(* shown only after a failure of the engine, and for identical strings the *)
(* call shows "Strings are identical." and diff is not called.             *)
(***************************************************************************)
C20_DifferentStringsDiffer ==
    /\ (/\ outcome.kind = "fulfilled"
        /\ ~outcome.failed) =>
           \E n \in 1..Len(outcome.value) :
               outcome.value[n].operation \in { "delete", "insert" }
    /\ resultArea.kind = "nodiff" => outcome.failed
    /\ string1 # string2 => resultArea.kind # "identical"
    /\ (pc = "fddone" /\ string1 = string2) =>
           /\ resultArea.kind = "identical"
           /\ outcome.kind = "pending"

\* a finished call on strings that differ only in white space at the end,
\* whose hirschbergLCS returned from a base case, before the site of the
\* failure the environment held ready
C20_Witness ==
    /\ pc = "fddone"
    /\ resultArea.kind = "rendered"
    /\ fault = "hirschberg"
    /\ ~outcome.failed
    /\ Len(string1) = MaxUILen
    /\ string2 = SubSeq(string1, 1, MaxUILen - 1)
(***************************************************************************)
(* C14.  Fork-join independence: of the two lcsLengths calls of an         *)
(* invocation of hirschbergLCS, and of its two recursive calls with all    *)
(* they call, neither branch reads or writes an array the other writes;    *)
(* the rows an invocation waits for are complete and the partition index   *)
(* is the one computed from both complete rows; and whatever the order of  *)
(* the continuations, the sequence returned is the one of the sequential   *)
(* revision.                                                               *)
(***************************************************************************)
IsPrefix(q, p) == Len(q) <= Len(p) /\ SubSeq(p, 1, Len(q)) = q

\* the arrays in log that a branch touched; a branch is an lcsLengths call
\* or an invocation with all that it calls
ByCall(log, p, side) == { e[2] : e \in { f \in log : f[1] = <<p, side>> } }
ByTree(log, q) == { e[2] : e \in { f \in log : IsPrefix(q, f[1][1]) } }

Apart(w1, r1, w2, r2) == w1 \cap (r2 \cup w2) = {} /\ w2 \cap (r1 \cup w1) = {}

C14_ForkJoin ==
    /\ \A p \in DOMAIN calls :
           LET t   == calls[p]
               mid == Len(t.a) \div 2
               pL  == Append(p, "L")
               pR  == Append(p, "R")
               row1 == lcsLengths(slice(t.a, 0, mid), t.b)
               row2 == lcsLengths(reverseArray(slice(t.a, mid, Len(t.a))),
                                  reverseArray(t.b))
           IN  /\ Apart(ByCall(writes, p, "f"), ByCall(reads, p, "f"),
                        ByCall(writes, p, "r"), ByCall(reads, p, "r"))
               /\ Apart(ByTree(writes, pL), ByTree(reads, pL),
                        ByTree(writes, pR), ByTree(reads, pR))
               /\ t.st = "await1" => heap[t.l1] = row1 /\ heap[t.l2] = row2
               /\ t.partition # -1 =>
                      /\ t.partition = findPartition(row1, row2)
                      /\ { pL, pR } \subseteq DOMAIN calls
               /\ pL \in DOMAIN calls => t.partition # -1
    /\ (pc = "forked" /\ calls[<<>>].st = "done") =>
           calls[<<>>].result = hirschbergLCSArray(forkA, forkB)

\* the call has returned a sequence of two tokens, and the right recursive
\* call, started second, had gone past its first await while the left one
\* still waited there
C14_Witness ==
    /\ pc = "forked"
    /\ <<"L">> \in DOMAIN calls
    /\ calls[<<"L">>].st = "await1"
    /\ calls[<<"R">>].st = "done"
    /\ Len(calls[<<"R">>].result) = 1
    /\ calls[<<"R">>].partition > 0
(***************************************************************************)
(* C18.  Overlapping comparisons: after several clicks, once every         *)
(* invocation of findDifference has finished, the result area shows the    *)
(* output for the inputs read by the last click, and an earlier invocation *)
(* never writes the result area after a later one has written it.          *)
(***************************************************************************)
OutputFor(s1, s2) ==
    IF s1 = s2 THEN Written("identical")
    ELSE written(diff(splitIntoTokens(s1), splitIntoTokens(s2), "none"))

Interior ==
    SubSeq(diffs, IF prefixLength > 0 THEN 2 ELSE 1,
           IF suffixLength > 0 THEN Len(diffs) - 1 ELSE Len(diffs))

C21_PairsEmitted ==
    pc = "cddone" =>
        LET equals == Without(Without(Interior, "delete"), "insert")
        IN  /\ Len(equals) = Len(lcs)
            /\ \A n \in 1..Len(lcs) :
                   /\ lcs[n].i \in 0..(Len(a) - 1)
                   /\ n <= Len(equals)
                   /\ equals[n].text = <<a[lcs[n].i + 1]>>
            /\ (\E m \in 1..Len(a), n \in 1..Len(b) : a[m] = b[n]) =>
                   Len(equals) >= 1
=============================================================================
